---- MODULE Spec2Model ----
(***************************************************************************)
(* State-machine model of drivers/rplidar_driver.py (RPLidarDriver).       *)
(*                                                                         *)
(* The driver is single-threaded and blocking.  Its state is the transport *)
(* handle (_serial), the _scanning flag and the motor control line (DTR)   *)
(* of the transport.  Every public method is one action.  The transport    *)
(* is the environment: each of its calls may raise, and each read returns  *)
(* bytes chosen by the environment.  The transport calls made by the most  *)
(* recent operation are recorded, in order, in ev.                         *)
(***************************************************************************)
EXTENDS Integers, Sequences, FiniteSets, TLC

(***************************************************************************)
(* Protocol constants (rplidar_driver.py:36-60)                            *)
(***************************************************************************)
SYNC_BYTE_1 == 165
SYNC_BYTE_2 == 90
CMD_STOP == 37
CMD_SCAN == 32
CMD_GET_INFO == 80
CMD_GET_HEALTH == 82
CMD_SET_PWM == 240
DESCRIPTOR_SIZE == 7
INFO_SIZE == 20
HEALTH_SIZE == 3
SCAN_RESPONSE_SIZE == 5
RESPONSE_INFO == 4
RESPONSE_HEALTH == 6
RESPONSE_SCAN == 129
DEFAULT_PWM == 660
MOTOR_SETTLE_MS == 500
STOP_SETTLE_MS == 100

(***************************************************************************)
(* Bounds of the model                                                     *)
(***************************************************************************)
MaxBuf == 2
MaxCount == 2
MaxN == 2

(***************************************************************************)
(* Byte arithmetic                                                         *)
(***************************************************************************)
RECURSIVE XorN(_, _, _)
XorN(a, b, n) ==
    IF n = 0 THEN 0
    ELSE (((a % 2) + (b % 2)) % 2) + 2 * XorN(a \div 2, b \div 2, n - 1)

Xor(a, b) == XorN(a, b, 8)

\* "checksum = 0; for byte in cmd_packet: checksum ^= byte".  XOR is
\* associative: the fold is computed by halves, which keeps the evaluation
\* of a frame of some 260 bytes shallow
RECURSIVE XorAll(_)
XorAll(s) ==
    IF s = <<>> THEN 0
    ELSE IF Len(s) = 1 THEN Xor(0, s[1])
    ELSE LET h == Len(s) \div 2
         IN  Xor(XorAll(SubSeq(s, 1, h)), XorAll(SubSeq(s, h + 1, Len(s))))

(***************************************************************************)
(* Environment inputs                                                      *)
(***************************************************************************)
\* The transport calls of one operation are numbered in the order in which
\* they are made (a sleep counts as one, and never raises).  An operation
\* runs with the number of the call that raises, 0 for none: every handler
\* is left by the first exception, so one failing call per operation covers
\* all outcomes.  close() is taken not to raise.
MaxCalls == 4
Faults == 0..MaxCalls

\* the fault indices that matter to an operation of at most n transport calls
FaultsIn(n) == {F \in Faults : F <= n}

\* what a 7-byte read can return: the three well-formed descriptors, bad
\* sync bytes in either position, and short reads
ScanDescriptor == <<165, 90, 5, 0, 0, 64, 129>>
InfoDescriptor == <<165, 90, 20, 0, 0, 0, 4>>
HealthDescriptor == <<165, 90, 3, 0, 0, 0, 6>>
DescriptorReads ==
    { ScanDescriptor, InfoDescriptor, HealthDescriptor,
      <<165, 0, 5, 0, 0, 64, 129>>, <<0, 90, 5, 0, 0, 64, 129>>,
      <<165, 90, 5, 0, 0, 64>> }

InfoPayload == <<24, 29, 1, 7, 171, 205, 0, 1, 2, 3, 4, 5, 6, 7, 8, 9, 10, 11, 12, 255>>
InfoReads == { InfoPayload, SubSeq(InfoPayload, 1, 19) }
HealthReads == { <<0, 0, 0>>, <<3, 2, 1>>, <<0, 0>> }

(***************************************************************************)
(* Results of a call: the driver fields after it, the transport calls it   *)
(* made, whether it raised, and its return value.                          *)
(***************************************************************************)
Ev(k, data, ok) == [k |-> k, data |-> data, ok |-> ok]

Raise(r) == [r EXCEPT !.raised = TRUE]
Emit(r, e) == [r EXCEPT !.ev = Append(@, e)]

\* does the transport call that r is about to make raise
Fails(r, F) == Len(r.ev) + 1 = F

\* is_connected: _serial is not None and _serial.is_open
is_connected(r) == r.serial # "None" /\ r.serial = "open"

\* is_scanning
is_scanning(r) == r.scanning

\* the checksum covers the payload only
cmd_packet_payload_sum(command, payload) ==
    LET head == <<SYNC_BYTE_1, command>>
    IN  IF payload # <<>>
        THEN head \o <<Len(payload)>> \o payload \o <<XorAll(payload)>>
        ELSE head

\* length and checksum are appended whatever the payload
cmd_packet_framed(command, payload) ==
    LET body == <<SYNC_BYTE_1, command>> \o <<Len(payload)>> \o payload
    IN  body \o <<XorAll(body)>>

\* the request frame _send_command builds
cmd_packet(command, payload) ==
    LET head == <<SYNC_BYTE_1, command>>
    IN  IF payload # <<>>
        THEN LET body == head \o <<Len(payload)>> \o payload
             IN  body \o <<XorAll(body)>>
        ELSE head

send_command(r, F, command, payload) ==
    IF ~is_connected(r) THEN Raise(r)
    ELSE IF Fails(r, F)
         THEN Raise(Emit(r, Ev("write", cmd_packet(command, payload), FALSE)))
         ELSE Emit(r, Ev("write", cmd_packet(command, payload), TRUE))

\* self._serial.read(n): AttributeError without a transport, else the
\* transport raises or returns what the environment supplies
serial_read(r, F, bytes) ==
    IF r.serial = "None" THEN Raise(r)
    ELSE IF Fails(r, F) THEN Raise(Emit(r, Ev("read", <<>>, FALSE)))
    ELSE [Emit(r, Ev("read", bytes, TRUE)) EXCEPT !.ret = bytes]

\* struct.unpack("<I", descriptor[2:6]): the low 30 bits are the size, the
\* top 2 bits, which are the top 2 bits of the fourth byte, the send mode
descriptor_fields(d) ==
    [size |-> d[3] + (256 * d[4]) + (65536 * d[5]) + (16777216 * (d[6] % 64)),
     send_mode |-> d[6] \div 64,
     data_type |-> d[7]]

\* only the first sync byte is tested
read_descriptor_sync1(r, F, bytes) ==
    LET r1 == serial_read(r, F, bytes)
    IN  IF r1.raised THEN r1
        ELSE IF Len(bytes) # DESCRIPTOR_SIZE THEN Raise(r1)
        ELSE IF bytes[1] # SYNC_BYTE_1 THEN Raise(r1)
        ELSE [r1 EXCEPT !.ret = descriptor_fields(bytes)]

read_descriptor(r, F, bytes) ==
    LET r1 == serial_read(r, F, bytes)
    IN  IF r1.raised THEN r1
        ELSE IF Len(bytes) # DESCRIPTOR_SIZE THEN Raise(r1)
        ELSE IF bytes[1] # SYNC_BYTE_1 \/ bytes[2] # SYNC_BYTE_2 THEN Raise(r1)
        ELSE [r1 EXCEPT !.ret = descriptor_fields(bytes)]

stop_motor(r, F) ==
    IF r.serial # "None"
    THEN IF Fails(r, F) THEN Raise(Emit(r, Ev("dtr", <<0>>, FALSE)))
         ELSE [Emit(r, Ev("dtr", <<0>>, TRUE)) EXCEPT !.dtr = "low"]
    ELSE r

\* a pwm of 0 taken as a request to stop
start_motor_pwm(r, F, pwm) ==
    IF r.serial # "None"
    THEN IF Fails(r, F) THEN Raise(Emit(r, Ev("dtr", <<1>>, FALSE)))
         ELSE IF pwm = 0 THEN [Emit(r, Ev("dtr", <<0>>, TRUE)) EXCEPT !.dtr = "low"]
         ELSE [Emit(r, Ev("dtr", <<1>>, TRUE)) EXCEPT !.dtr = "high"]
    ELSE r

start_motor(r, F, pwm) ==
    IF r.serial # "None"
    THEN IF Fails(r, F) THEN Raise(Emit(r, Ev("dtr", <<1>>, FALSE)))
         ELSE [Emit(r, Ev("dtr", <<1>>, TRUE)) EXCEPT !.dtr = "high"]
    ELSE r

\* the speed sent to the device as a SET_PWM request, little-endian
set_motor_pwm_command(r, F, pwm) ==
    send_command(r, F, CMD_SET_PWM, <<pwm % 256, pwm \div 256>>)

set_motor_pwm(r, F, pwm) ==
    IF pwm = 0 THEN stop_motor(r, F) ELSE start_motor(r, F, DEFAULT_PWM)

\* the scanning flag set on any well-formed descriptor, its type unchecked
start_scan_untyped(r, F, bytes) ==
    IF r.scanning THEN Raise(r)
    ELSE LET r1 == start_motor(r, F, DEFAULT_PWM)
         IN  IF r1.raised THEN r1
             ELSE LET r2 == send_command(Emit(r1, Ev("sleep", <<MOTOR_SETTLE_MS>>, TRUE)),
                                         F, CMD_SCAN, <<>>)
                  IN  IF r2.raised THEN r2
                      ELSE LET r3 == read_descriptor(r2, F, bytes)
                           IN  IF r3.raised THEN r3
                               ELSE [r3 EXCEPT !.scanning = TRUE]

\* a STOP is sent first, to end a scan the device may still be in
start_scan_restart(r, F, bytes) ==
    IF r.scanning THEN Raise(r)
    ELSE LET r0 == send_command(r, F, CMD_STOP, <<>>)
             r1 == IF r0.raised THEN r0 ELSE start_motor(r0, F, DEFAULT_PWM)
         IN  IF r1.raised THEN r1
             ELSE LET r2 == send_command(Emit(r1, Ev("sleep", <<MOTOR_SETTLE_MS>>, TRUE)),
                                         F, CMD_SCAN, <<>>)
                  IN  IF r2.raised THEN r2
                      ELSE LET r3 == read_descriptor(r2, F, bytes)
                           IN  IF r3.raised THEN r3
                               ELSE IF r3.ret.data_type # RESPONSE_SCAN THEN Raise(r3)
                               ELSE [r3 EXCEPT !.scanning = TRUE]

\* no test of the scanning flag on entry
start_scan_reentrant(r, F, bytes) ==
    LET r1 == start_motor(r, F, DEFAULT_PWM)
    IN  IF r1.raised THEN r1
        ELSE LET r2 == send_command(Emit(r1, Ev("sleep", <<MOTOR_SETTLE_MS>>, TRUE)),
                                    F, CMD_SCAN, <<>>)
             IN  IF r2.raised THEN r2
                 ELSE LET r3 == read_descriptor(r2, F, bytes)
                      IN  IF r3.raised THEN r3
                          ELSE IF r3.ret.data_type # RESPONSE_SCAN THEN Raise(r3)
                          ELSE [r3 EXCEPT !.scanning = TRUE]

start_scan(r, F, bytes) ==
    IF r.scanning THEN Raise(r)
    ELSE LET r1 == start_motor(r, F, DEFAULT_PWM)
         IN  IF r1.raised THEN r1
             ELSE LET r2 == send_command(Emit(r1, Ev("sleep", <<MOTOR_SETTLE_MS>>, TRUE)),
                                         F, CMD_SCAN, <<>>)
                  IN  IF r2.raised THEN r2
                      ELSE LET r3 == read_descriptor(r2, F, bytes)
                           IN  IF r3.raised THEN r3
                               ELSE IF r3.ret.data_type # RESPONSE_SCAN THEN Raise(r3)
                               ELSE [r3 EXCEPT !.scanning = TRUE]

\* a stop that insists on a scan in progress
stop_scan_strict(r, F) ==
    IF ~r.scanning THEN Raise(r)
    ELSE LET r1 == send_command(r, F, CMD_STOP, <<>>)
         IN  IF r1.raised THEN r1
             ELSE LET r2 == [Emit(r1, Ev("sleep", <<STOP_SETTLE_MS>>, TRUE))
                                EXCEPT !.scanning = FALSE]
                  IN  IF is_connected(r2)
                      THEN IF Fails(r2, F)
                           THEN Raise(Emit(r2, Ev("reset_input_buffer", <<>>, FALSE)))
                           ELSE Emit(r2, Ev("reset_input_buffer", <<>>, TRUE))
                      ELSE r2

stop_scan(r, F) ==
    LET r1 == send_command(r, F, CMD_STOP, <<>>)
    IN  IF r1.raised THEN r1
        ELSE LET r2 == [Emit(r1, Ev("sleep", <<STOP_SETTLE_MS>>, TRUE)) EXCEPT !.scanning = FALSE]
             IN  IF is_connected(r2)
                 THEN IF Fails(r2, F)
                      THEN Raise(Emit(r2, Ev("reset_input_buffer", <<>>, FALSE)))
                      ELSE Emit(r2, Ev("reset_input_buffer", <<>>, TRUE))
                 ELSE r2

\* a connect that opens the port whether or not one is open
connect_reopen(r, F, line) ==
    IF Fails(r, F) THEN Raise(Emit(r, Ev("open", <<>>, FALSE)))
    ELSE LET r1 == [Emit(r, Ev("open", <<>>, TRUE)) EXCEPT !.serial = "open", !.dtr = line]
         IN  IF Fails(r1, F)
             THEN Raise(Emit(r1, Ev("reset_input_buffer", <<>>, FALSE)))
             ELSE LET r2 == Emit(r1, Ev("reset_input_buffer", <<>>, TRUE))
                  IN  IF Fails(r2, F)
                      THEN Raise(Emit(r2, Ev("reset_output_buffer", <<>>, FALSE)))
                      ELSE Emit(r2, Ev("reset_output_buffer", <<>>, TRUE))

\* connect(); line is the state of the control line of a freshly opened
\* transport, which the driver does not set
connect(r, F, line) ==
    IF is_connected(r) THEN r
    ELSE IF Fails(r, F) THEN Raise(Emit(r, Ev("open", <<>>, FALSE)))
    ELSE LET r1 == [Emit(r, Ev("open", <<>>, TRUE)) EXCEPT !.serial = "open", !.dtr = line]
         IN  IF Fails(r1, F)
             THEN Raise(Emit(r1, Ev("reset_input_buffer", <<>>, FALSE)))
             ELSE LET r2 == Emit(r1, Ev("reset_input_buffer", <<>>, TRUE))
                  IN  IF Fails(r2, F)
                      THEN Raise(Emit(r2, Ev("reset_output_buffer", <<>>, FALSE)))
                      ELSE Emit(r2, Ev("reset_output_buffer", <<>>, TRUE))

\* a disconnect without the try block: a nested error leaves it at once
disconnect_unguarded(r, F) ==
    IF r.serial # "None"
    THEN LET r1 == IF r.scanning THEN stop_scan(r, F) ELSE r
             r2 == IF r1.raised THEN r1 ELSE stop_motor(r1, F)
         IN  IF r2.raised THEN r2
             ELSE [Emit(r2, Ev("close", <<>>, TRUE)) EXCEPT !.serial = "None", !.dtr = "none"]
    ELSE r

\* disconnect(): one try block around stop_scan() and stop_motor(), then
\* close() and _serial = None
disconnect(r, F) ==
    IF r.serial # "None"
    THEN LET r1 == IF r.scanning THEN stop_scan(r, F) ELSE r
             r2 == IF r1.raised THEN r1 ELSE stop_motor(r1, F)
             r3 == [r2 EXCEPT !.raised = FALSE]
         IN  [Emit(r3, Ev("close", <<>>, TRUE)) EXCEPT !.serial = "None", !.dtr = "none"]
    ELSE r

get_device_info(r, F, bytes, data) ==
    LET r1 == send_command(r, F, CMD_GET_INFO, <<>>)
    IN  IF r1.raised THEN r1
        ELSE LET r2 == read_descriptor(r1, F, bytes)
             IN  IF r2.raised THEN r2
                 ELSE IF r2.ret.data_type # RESPONSE_INFO THEN Raise(r2)
                 ELSE LET r3 == serial_read(r2, F, data)
                      IN  IF r3.raised THEN r3
                          ELSE IF Len(data) # INFO_SIZE THEN Raise(r3)
                          ELSE [r3 EXCEPT !.ret =
                                   [model |-> data[1], firmware_minor |-> data[2],
                                    firmware_major |-> data[3], hardware |-> data[4],
                                    serial_number |-> SubSeq(data, 5, 20)]]

\* every status from 2 up named an error
HEALTH_STATUS_NAMES_error(status) ==
    CASE status = 0 -> "Good"
      [] status = 1 -> "Warning"
      [] OTHER -> "Error"

HEALTH_STATUS_NAMES(status) ==
    CASE status = 0 -> "Good"
      [] status = 1 -> "Warning"
      [] status = 2 -> "Error"
      [] OTHER -> "Unknown"

\* the type tag of the descriptor is not compared
get_health_status_untyped(r, F, bytes, data) ==
    LET r1 == send_command(r, F, CMD_GET_HEALTH, <<>>)
    IN  IF r1.raised THEN r1
        ELSE LET r2 == read_descriptor(r1, F, bytes)
             IN  IF r2.raised THEN r2
                 ELSE LET r3 == serial_read(r2, F, data)
                      IN  IF r3.raised THEN r3
                          ELSE IF Len(data) # HEALTH_SIZE THEN Raise(r3)
                          ELSE [r3 EXCEPT !.ret =
                                   [status |-> data[1],
                                    status_name |-> HEALTH_STATUS_NAMES(data[1]),
                                    error_code |-> data[2] + (256 * data[3])]]

get_health_status(r, F, bytes, data) ==
    LET r1 == send_command(r, F, CMD_GET_HEALTH, <<>>)
    IN  IF r1.raised THEN r1
        ELSE LET r2 == read_descriptor(r1, F, bytes)
             IN  IF r2.raised THEN r2
                 ELSE IF r2.ret.data_type # RESPONSE_HEALTH THEN Raise(r2)
                 ELSE LET r3 == serial_read(r2, F, data)
                      IN  IF r3.raised THEN r3
                          ELSE IF Len(data) # HEALTH_SIZE THEN Raise(r3)
                          ELSE [r3 EXCEPT !.ret =
                                   [status |-> data[1],
                                    status_name |-> HEALTH_STATUS_NAMES(data[1]),
                                    error_code |-> data[2] + (256 * data[3])]]

\* what a 5-byte read of the measurement stream can return: frames built
\* from a few values per byte, and short reads
FrameB0 == {40, 41}
FrameAngle == { <<2, 0>>, <<0, 1>> }
FrameB3 == {0, 4}
FrameB4 == {0}
Frames ==
    { <<b0, a[1], a[2], b3, b4>> :
        b0 \in FrameB0, a \in FrameAngle, b3 \in FrameB3, b4 \in FrameB4 }
ShortReads == { <<41, 0, 1, 4>> }
FrameReads == Frames \cup ShortReads

(***************************************************************************)
(* Measurement decoding and rotation assembly.  A ScanPoint holds its      *)
(* angle in 1/64 degree and its distance in 1/4 mm: the code divides the   *)
(* raw fields by 64.0 and 4.0, which is exact and keeps order and sign.    *)
(***************************************************************************)
ScanPoint(angle, distance, quality, new_scan) ==
    [angle |-> angle, distance |-> distance, quality |-> quality, new_scan |-> new_scan]

NoPoint == ScanPoint(0, 0, 0, FALSE)

\* the high angle byte shifted by 8, not 7
parse_scan_response_angle8(data) ==
    LET quality == data[1] \div 4
        new_scan == (data[1] % 2) = 1
        angle_raw == (data[2] \div 2) + (256 * data[3])
        distance_raw == data[4] + (256 * data[5])
    IN  ScanPoint(angle_raw, distance_raw, quality, new_scan)

\* the low angle byte taken whole, check bit included
parse_scan_response_unshifted(data) ==
    LET quality == data[1] \div 4
        new_scan == (data[1] % 2) = 1
        angle_raw == (data[2] + (128 * data[3])) % 32768
        distance_raw == data[4] + (256 * data[5])
    IN  ScanPoint(angle_raw, distance_raw, quality, new_scan)

parse_scan_response(data) ==
    LET quality == data[1] \div 4
        new_scan == (data[1] % 2) = 1
        angle_raw == (data[2] \div 2) + (128 * data[3])
        distance_raw == data[4] + (256 * data[5])
    IN  ScanPoint(angle_raw, distance_raw, quality, new_scan)

\* list.sort(key=lambda p: p.angle): stable, ascending
RECURSIVE InsertByAngle(_, _)
InsertByAngle(s, p) ==
    IF s = <<>> THEN <<p>>
    ELSE IF s[Len(s)].angle <= p.angle THEN Append(s, p)
    ELSE Append(InsertByAngle(SubSeq(s, 1, Len(s) - 1), p), s[Len(s)])

\* a rotation handed over in arrival order
SortByAngle_unsorted(s) == s

RECURSIVE SortByAngle(_)
SortByAngle(s) ==
    IF s = <<>> THEN <<>>
    ELSE InsertByAngle(SortByAngle(SubSeq(s, 1, Len(s) - 1)), s[Len(s)])

\* every point kept, valid or not
accumulate_all(current, p) == Append(current, p)

\* iter_scans, the tail of the loop body: keep the point if it is valid
accumulate(current, p) ==
    IF p.distance > 0 THEN Append(current, p) ELSE current

\* iter_scans, after a yield that does not end the iteration: the list the
\* caller holds is the object current_scan names.  "current_scan = []"
\* binds the name to a new list, to which the point that closed the
\* rotation is appended if it is valid; the list yielded is left as it is
\* the name not bound to a new list: the list yielded goes on growing
next_rotation_shared(yielded, p) ==
    [current_scan |-> accumulate(yielded, p), yielded |-> accumulate(yielded, p)]

next_rotation(yielded, p) ==
    [current_scan |-> accumulate(<<>>, p), yielded |-> yielded]

\* iter_scans, the head of the loop body: does this point close a rotation
\* the rotation-start flag alone closes a rotation
closes_rotation_any(current, p) == p.new_scan

closes_rotation(current, p) == p.new_scan /\ current # <<>>

\* iter_scans, after the yield: has the requested number been reached
\* the limit compared one rotation late
scans_done_late(max_scans, scan_count) == max_scans > 0 /\ scan_count > max_scans

scans_done(max_scans, scan_count) == max_scans > 0 /\ scan_count >= max_scans

\* iter_measurements, a read of other than 5 bytes: "continue", the loop
\* goes on to the next read
after_short_read_stop == "done"

after_short_read == "loop"

\* iter_measurements, the loop condition
more_points(max_points, n) == max_points = 0 \/ n < max_points

(***************************************************************************)
(* State                                                                   *)
(***************************************************************************)
VARIABLES
    serial,        \* _serial: "None", or the transport, "open" or "closed"
    scanning,      \* _scanning
    dtr,           \* _serial.dtr: "high", "low"; "none" without a transport
    op,            \* the most recent operation
    pre,           \* _serial, _scanning and the line when it began
    ev,            \* the transport calls it made, in order
    raised,        \* whether it raised to its caller
    gen_kind,      \* the generator the caller holds: "none", "measurements", "scans"
    gen_pc,        \* where it stands: "created", "loop" (running), "yield", "done"
    gen_max,       \* its max_points / max_scans argument
    count,         \* its count / scan_count
    current_scan,  \* iter_scans: current_scan
    point,         \* the point being processed or yielded
    emitted,       \* iter_scans: the list handed to the caller at the last yield
    aligned,       \* iter_scans: the accumulation began at a rotation-start frame
    arg,           \* codec functions: the input one of them is applied to
    res,           \* codec functions: what it produced
    main_pc,       \* main(): "off" (not the test program), "args", "connect", "running", "disconnect", "summary", "exit"
    selected,      \* the command line: "list", "one" test by name, or "all"
    owns,          \* BaseTest._owns_driver of the test being run
    test_index,    \* which entry of AVAILABLE_TESTS is being run
    run_pc,        \* BaseTest.run(): the step it stands before
    run_raised,    \* an exception is propagating out of run()
    report,        \* self.report of the test being run: status, and whether every result is within limits
    started,       \* this run()'s start_scan() returned
    stop_called,   \* this run() invoked stop_scan()
    reports,       \* main(): reports, the passed property of each, in order
    outcomes,      \* the status each selected test ended with, in order
    exit_code,     \* what main() returned; -1 before it returns
    rx,            \* the transport's input buffer: bytes received and not yet read
    wire,          \* bytes the device has sent that have not arrived yet
    req_no,        \* the number of requests written to the device
    streaming,     \* the device streams frames: the number of the SCAN request, else 0
    parsed         \* the bytes the last query took as its descriptor and payload

drv == <<serial, scanning, dtr>>
gen == <<gen_kind, gen_pc, gen_max, count, current_scan, point, emitted, aligned>>
codec == <<arg, res>>
link == <<rx, wire, req_no, streaming, parsed>>
harness == <<main_pc, selected, owns, test_index, run_pc, run_raised, report,
             started, stop_called, reports, outcomes, exit_code>>
vars == <<serial, scanning, dtr, op, pre, ev, raised,
          gen_kind, gen_pc, gen_max, count, current_scan, point, emitted, aligned,
          arg, res,
          main_pc, selected, owns, test_index, run_pc, run_raised, report,
          started, stop_called, reports, outcomes, exit_code,
          rx, wire, req_no, streaming, parsed>>

Fields == [serial |-> serial, scanning |-> scanning, dtr |-> dtr]

\* the driver fields at the start of a call
Self == [serial |-> serial, scanning |-> scanning, dtr |-> dtr,
         ev |-> <<>>, raised |-> FALSE, ret |-> <<>>]

Return(name, r) ==
    /\ serial' = r.serial
    /\ scanning' = r.scanning
    /\ dtr' = r.dtr
    /\ op' = name
    /\ pre' = Fields
    /\ ev' = r.ev
    /\ raised' = r.raised
    /\ UNCHANGED <<codec, link>>

\* the caller can call the driver unless a generator is running: the
\* program is single-threaded
DriverCall(name, r) ==
    /\ gen_pc # "loop"
    /\ Return(name, r)
    /\ UNCHANGED <<gen, harness>>

\* Bound on the caller: between two next() of a generator it holds, it
\* calls connect, disconnect, start_scan or stop_scan, or takes a new
\* generator; the queries and the motor calls, which leave _serial and
\* _scanning alone, are made with no generator suspended.
QueryCall(name, r) ==
    /\ gen_pc \in {"none", "done", "returned"}
    /\ DriverCall(name, r)

\* no codec function applied: the state of these variables in Spec
NoArg == [fn |-> "none", command |-> 0, bytes |-> <<>>]
NoResult == [raised |-> FALSE, frame |-> <<>>,
             descriptor |-> [size |-> 0, send_mode |-> 0, data_type |-> 0],
             point |-> NoPoint,
             health |-> [status |-> 0, status_name |-> "", error_code |-> 0]]

\* the bytes on the line are not followed: a read returns what the
\* environment supplies
NoLink ==
    /\ rx = <<>>
    /\ wire = <<>>
    /\ req_no = 0
    /\ streaming = 0
    /\ parsed = <<>>

\* the test program is not running: the caller drives the driver directly
NoHarness ==
    /\ main_pc = "off"
    /\ selected = "none"
    /\ owns = FALSE
    /\ test_index = 0
    /\ run_pc = "none"
    /\ run_raised = FALSE
    /\ report = [status |-> "not_run", results_ok |-> TRUE]
    /\ started = FALSE
    /\ stop_called = FALSE
    /\ reports = <<>>
    /\ outcomes = <<>>
    /\ exit_code = -1

\* the driver after construction
Constructed ==
    /\ serial = "None"
    /\ scanning = FALSE
    /\ dtr = "none"
    /\ op = "init"
    /\ pre = [serial |-> "None", scanning |-> FALSE, dtr |-> "none"]
    /\ ev = <<>>
    /\ raised = FALSE
    /\ gen_kind = "none"
    /\ gen_pc = "none"
    /\ gen_max = 0
    /\ count = 0
    /\ current_scan = <<>>
    /\ point = NoPoint
    /\ emitted = <<>>
    /\ aligned = FALSE

Init ==
    /\ Constructed
    /\ arg = NoArg
    /\ res = NoResult
    /\ NoHarness
    /\ NoLink

\* Without a port object (_serial is None) no operation reaches a transport
\* call, and start_scan() raises at once when the flag is set: in these
\* states there is no fault to place and no input to choose
FaultsNow(n) == IF serial = "None" THEN {0} ELSE FaultsIn(n)
ReadsNow(S) == IF serial = "None" THEN {CHOOSE x \in S : TRUE} ELSE S
StartFaults == IF scanning THEN {0} ELSE FaultsNow(MaxCalls)
StartReads == IF scanning THEN {ScanDescriptor} ELSE ReadsNow(DescriptorReads)

Connect ==
    \E F \in FaultsIn(3) :
    \E line \in {"high", "low"} :
        DriverCall("connect", connect(Self, F, line))

Disconnect ==
    \E F \in Faults :
        DriverCall("disconnect", disconnect(Self, F))

StartMotor ==
    \E F \in FaultsIn(1) : \E pwm \in {0, DEFAULT_PWM} :
        QueryCall("start_motor", start_motor(Self, F, pwm))

StopMotor ==
    \E F \in FaultsIn(1) :
        QueryCall("stop_motor", stop_motor(Self, F))

SetMotorPwm ==
    \E F \in FaultsIn(1) : \E pwm \in {0, DEFAULT_PWM} :
        QueryCall("set_motor_pwm", set_motor_pwm(Self, F, pwm))

StartScan ==
    \E F \in StartFaults : \E bytes \in StartReads :
        DriverCall("start_scan", start_scan(Self, F, bytes))

StopScan ==
    \E F \in FaultsIn(3) :
        DriverCall("stop_scan", stop_scan(Self, F))

GetDeviceInfo ==
    \E F \in FaultsNow(3) : \E bytes \in ReadsNow(DescriptorReads) : \E data \in ReadsNow(InfoReads) :
        QueryCall("get_device_info", get_device_info(Self, F, bytes, data))

GetHealthStatus ==
    \E F \in FaultsNow(3) : \E bytes \in ReadsNow(DescriptorReads) : \E data \in ReadsNow(HealthReads) :
        QueryCall("get_health_status", get_health_status(Self, F, bytes, data))

(***************************************************************************)
(* Generators.  Calling iter_measurements() or iter_scans() only creates   *)
(* the generator.  A next() on it runs the body up to the next yield: its  *)
(* prologue (IterStart) or the code after the yield (IterResume), then one *)
(* read of the stream per step (IterRead) until a value is yielded, the    *)
(* body ends or an exception leaves it.  No other call can happen while    *)
(* the body runs (gen_pc = "loop").                                        *)
(***************************************************************************)
NewGenerator(name, kind, n) ==
    /\ gen_pc # "loop"
    /\ gen_kind' = kind
    /\ gen_pc' = "created"
    /\ gen_max' = n
    /\ count' = 0
    /\ current_scan' = <<>>
    /\ point' = NoPoint
    /\ emitted' = <<>>
    /\ aligned' = FALSE
    /\ op' = name
    /\ pre' = Fields
    /\ ev' = <<>>
    /\ raised' = FALSE
    /\ UNCHANGED <<drv, codec, harness, link>>

\* the generator object is finished: its frame and locals are gone
Finished ==
    /\ gen_pc' = "done"
    /\ count' = 0
    /\ current_scan' = <<>>
    /\ point' = NoPoint
    /\ aligned' = FALSE

IterMeasurements == \E max_points \in {0, MaxN} : NewGenerator("iter_measurements", "measurements", max_points)

IterScans == \E max_scans \in {0, MaxN} : NewGenerator("iter_scans", "scans", max_scans)

\* first next(): "if not self._scanning: self.start_scan()"; iter_scans
\* then enters iter_measurements(), whose own test finds the flag set
IterStart ==
    /\ gen_pc = "created"
    /\ \E F \in StartFaults : \E bytes \in StartReads :
        LET r1 == IF ~scanning THEN start_scan(Self, F, bytes) ELSE Self
            r2 == IF gen_kind = "scans" /\ ~r1.raised /\ ~r1.scanning
                  THEN start_scan(r1, F, bytes) ELSE r1
        IN  /\ Return("begin", r2)
            /\ IF r2.raised \/ (gen_kind = "measurements" /\ ~more_points(gen_max, 0))
               THEN Finished
               ELSE gen_pc' = "loop" /\ UNCHANGED <<count, current_scan, point, aligned>>
            /\ UNCHANGED <<harness, gen_kind, gen_max, emitted>>

\* get_single_scan(): "for scan in self.iter_scans(max_scans=1)" creates the
\* generator and runs its prologue at once; the reads follow (IterRead), and
\* the first list yielded is returned (gen_pc = "returned"), which drops the
\* generator
GetSingleScan ==
    /\ gen_pc # "loop"
    /\ \E F \in StartFaults : \E bytes \in StartReads :
        LET r1 == IF ~scanning THEN start_scan(Self, F, bytes) ELSE Self
            r2 == IF ~r1.raised /\ ~r1.scanning
                  THEN start_scan(r1, F, bytes) ELSE r1
        IN  /\ Return("get_single_scan", r2)
            /\ UNCHANGED harness
            /\ gen_kind' = "single"
            /\ gen_max' = 1
            /\ gen_pc' = IF r2.raised THEN "done" ELSE "loop"
            /\ count' = 0
            /\ current_scan' = <<>>
            /\ point' = NoPoint
            /\ emitted' = <<>>
            /\ aligned' = FALSE

\* a later next(): the code after the yield
IterResume ==
    /\ gen_pc = "yield"
    /\ count < MaxCount
    /\ IF gen_kind = "scans"
       THEN IF scans_done(gen_max, count + 1)
            THEN Finished /\ UNCHANGED emitted
            ELSE /\ gen_pc' = "loop"
                 /\ count' = count + 1
                 /\ current_scan' = next_rotation(current_scan, point).current_scan
                 /\ emitted' = next_rotation(current_scan, point).yielded
                 /\ aligned' = point.new_scan
                 /\ UNCHANGED point
       ELSE IF more_points(gen_max, count + 1)
            THEN /\ gen_pc' = "loop"
                 /\ count' = count + 1
                 /\ UNCHANGED <<current_scan, point, aligned, emitted>>
            ELSE Finished /\ UNCHANGED emitted
    /\ op' = "resume"
    /\ pre' = Fields
    /\ ev' = <<>>
    /\ raised' = FALSE
    /\ UNCHANGED <<drv, codec, harness, link, gen_kind, gen_max>>

\* one "data = self._serial.read(SCAN_RESPONSE_SIZE)" and what follows it
IterRead ==
    /\ gen_pc = "loop"
    /\ \E F \in FaultsIn(1) : \E data \in FrameReads :
        LET r == serial_read(Self, F, data)
            p == parse_scan_response(data)
        IN  /\ Return("read", r)
            /\ UNCHANGED harness
            /\ IF r.raised
               THEN Finished /\ UNCHANGED emitted
               ELSE IF Len(data) # SCAN_RESPONSE_SIZE
               THEN /\ gen_pc' = after_short_read
                    /\ UNCHANGED <<count, current_scan, point, emitted, aligned>>
               ELSE IF gen_kind = "measurements"
               THEN /\ gen_pc' = "yield"
                    /\ point' = p
                    /\ UNCHANGED <<count, current_scan, emitted, aligned>>
               ELSE IF closes_rotation(current_scan, p)
               THEN /\ emitted' = SortByAngle(current_scan)
                    /\ IF gen_kind = "single"
                       THEN /\ gen_pc' = "returned"
                            /\ current_scan' = <<>>
                            /\ point' = NoPoint
                       ELSE /\ gen_pc' = "yield"
                            /\ current_scan' = SortByAngle(current_scan)
                            /\ point' = p
                    /\ UNCHANGED <<count, aligned>>
               ELSE /\ Len(accumulate(current_scan, p)) <= MaxBuf
                    /\ current_scan' = accumulate(current_scan, p)
                    /\ point' = p
                    /\ aligned' = (aligned \/ p.new_scan)
                    /\ UNCHANGED <<gen_pc, count, emitted>>
            /\ UNCHANGED <<gen_kind, gen_max>>

Next ==
    \/ Connect
    \/ Disconnect
    \/ StartMotor
    \/ StopMotor
    \/ SetMotorPwm
    \/ StartScan
    \/ StopScan
    \/ GetDeviceInfo
    \/ GetHealthStatus
    \/ IterMeasurements
    \/ IterScans
    \/ IterStart
    \/ GetSingleScan
    \/ IterResume
    \/ IterRead

Spec == Init /\ [][Next]_vars

(***************************************************************************)
(* Properties                                                              *)
(***************************************************************************)
Connected(f) == f.serial = "open"
Writes(e) == { i \in DOMAIN e : e[i].k = "write" }
Failed(e) == { i \in DOMAIN e : ~e[i].ok }
Closed(e) == e # <<>> /\ e[Len(e)] = Ev("close", <<>>, TRUE)

\* C1: disconnect() on a Connected or Scanning driver ends with the
\* transport closed and _serial dropped, and does not raise, whatever the
\* nested stop_scan() or stop_motor() raised.
C1_DisconnectAlwaysCloses ==
    (op = "disconnect" /\ Connected(pre))
        => (serial = "None" /\ ~raised /\ Closed(ev))

\* a disconnect that closed the transport after a nested call had raised
C1_Witness ==
    /\ op = "disconnect" /\ Connected(pre) /\ pre.scanning
    /\ Failed(ev) # {}
    /\ serial = "None" /\ ~raised /\ Closed(ev)

\* C2: every disconnect() of a connected driver stops the scan first if
\* one is running, then sets the motor line low, then closes: the line is
\* set low before the close in every execution.
C2_MotorLowBeforeClose ==
    (op = "disconnect" /\ Connected(pre))
        => /\ pre.scanning => (ev[1].k = "write" /\ ev[1].data = <<165, 37>>)
           /\ \E i, j \in DOMAIN ev :
                i < j /\ ev[i].k = "dtr" /\ ev[i].data = <<0>> /\ ev[j].k = "close"

\* C3: the scanning flag is never set while the transport is closed or
\* absent, and it is set only by a step that starts and ends connected.
C3_ScanningImpliesConnected ==
    /\ scanning => Connected(Fields)
    /\ (scanning /\ ~pre.scanning) => (Connected(pre) /\ Connected(Fields))

\* the four transport calls of a successful start_scan(), in order
ScanHandshake(e) ==
    /\ Len(e) = 4
    /\ e[1] = Ev("dtr", <<1>>, TRUE)
    /\ e[2].k = "sleep"
    /\ e[3] = Ev("write", <<165, 32>>, TRUE)
    /\ e[4].k = "read" /\ e[4].ok
    /\ Len(e[4].data) = 7
    /\ e[4].data[1] = 165 /\ e[4].data[2] = 90 /\ e[4].data[7] = 129

BadScanDescriptor(d) ==
    Len(d) < 7 \/ d[1] # 165 \/ d[2] # 90 \/ d[7] # 129

\* C4: the driver becomes Scanning only through motor high, wait, SCAN
\* written, a 7-byte descriptor of type 0x81 read, in this order; a short
\* descriptor, wrong sync bytes or another type make start_scan() raise
\* and leave the driver Connected and not scanning.
C4_ScanStartsAfterDescriptor ==
    /\ (scanning /\ ~pre.scanning) => (ScanHandshake(ev) /\ ~raised)
    /\ (/\ op = "start_scan" /\ ~pre.scanning
        /\ Len(ev) = 4 /\ ev[4].k = "read" /\ ev[4].ok
        /\ BadScanDescriptor(ev[4].data))
           => (raised /\ ~scanning /\ Connected(Fields))

\* a start_scan() that ended Scanning
C4_Witness ==
    op = "start_scan" /\ ~pre.scanning /\ scanning /\ ScanHandshake(ev)

\* C5: start_scan() on a Scanning driver raises and changes nothing: no
\* transport call is made, so nothing is written and the line is not set.
C5_StartScanWhileScanning ==
    (op = "start_scan" /\ Connected(pre) /\ pre.scanning)
        => (raised /\ ev = <<>> /\ Fields = pre)

\* a start_scan() refused on a Scanning driver
C5_Witness ==
    op = "start_scan" /\ Connected(pre) /\ pre.scanning /\ raised /\ scanning

\* C6: with a working transport, stop_scan() on a Connected driver,
\* scanning or not, does not raise and leaves it Connected and not
\* scanning with the line as it was; on a driver that is not scanning it
\* therefore changes nothing, which makes a second stop_scan() idempotent.
C6_StopScanIdempotent ==
    (op = "stop_scan" /\ Connected(pre) /\ Failed(ev) = {})
        => /\ ~raised
           /\ Fields = [pre EXCEPT !.scanning = FALSE]
           /\ ~pre.scanning => Fields = pre

\* a stop_scan() that returned on a Connected driver that was not scanning
C6_Witness ==
    op = "stop_scan" /\ Connected(pre) /\ ~pre.scanning /\ ~raised /\ Fields = pre

\* C7: a command issued while Disconnected raises, writes nothing and
\* leaves the driver Disconnected and not scanning; for a generator the
\* first next() ends in an exception, at once or at its first read.
C7_CommandsWhileDisconnected ==
    /\ (op \in {"get_device_info", "get_health_status", "start_scan", "stop_scan"}
        /\ ~Connected(pre))
           => (raised /\ Writes(ev) = {} /\ ~Connected(Fields) /\ ~scanning)
    /\ (op = "begin" /\ ~Connected(pre))
           => /\ raised \/ gen_pc = "loop"
              /\ Writes(ev) = {} /\ ~Connected(Fields) /\ ~scanning
    /\ (op = "read" /\ ~Connected(pre))
           => (raised /\ Writes(ev) = {} /\ ~Connected(Fields) /\ ~scanning)

\* C8: connect() on a Connected or Scanning driver returns without a
\* transport call (no open, no buffer reset) and changes nothing.
C8_ConnectWhileConnected ==
    (op = "connect" /\ Connected(pre))
        => (~raised /\ ev = <<>> /\ Fields = pre)

\* a connect() on a Scanning driver
C8_Witness ==
    op = "connect" /\ Connected(pre) /\ pre.scanning /\ ~raised /\ scanning

\* C9: every rotation iter_scans yields is in non-decreasing angle order
\* and holds no point with distance <= 0.
C9_RotationOrdered ==
    /\ \A i \in 1..(Len(emitted) - 1) : emitted[i].angle <= emitted[i + 1].angle
    /\ \A i \in DOMAIN emitted : emitted[i].distance > 0

\* a yielded rotation whose rotation-start point, which arrived first, was
\* sorted behind a later point
C9_Witness ==
    /\ gen_kind = "scans" /\ gen_pc = "yield"
    /\ Len(emitted) = 2
    /\ emitted[2].new_scan /\ emitted[1].angle < emitted[2].angle

Count(s, x) == Cardinality({ i \in DOMAIN s : s[i] = x })
SamePoints(s, t) ==
    Len(s) = Len(t) /\ \A i \in DOMAIN s : Count(s, s[i]) = Count(t, s[i])

StartWithoutReturn(p) == p.new_scan /\ p.distance = 0

\* C10: a rotation-start point of distance 0 is in no yielded rotation
\* and not in the buffer; read while the buffer holds points it closes
\* the rotation, which is yielded with exactly those points, and the
\* buffer of the next rotation starts empty.
C10_EmptyStartClosesRotation ==
    /\ [](/\ \A i \in DOMAIN emitted : ~StartWithoutReturn(emitted[i])
          /\ \A i \in DOMAIN current_scan : ~StartWithoutReturn(current_scan[i]))
    /\ [][(/\ gen_kind = "scans" /\ gen_pc = "loop" /\ current_scan # <<>>
           /\ op' = "read" /\ ~raised'
           /\ Len(ev'[1].data) = 5
           /\ ev'[1].data[1] % 2 = 1 /\ ev'[1].data[4] = 0 /\ ev'[1].data[5] = 0)
              => (/\ gen_pc' = "yield"
                  /\ StartWithoutReturn(point')
                  /\ SamePoints(emitted', current_scan))]_vars
    /\ [][(/\ gen_kind = "scans" /\ gen_pc = "yield" /\ StartWithoutReturn(point)
           /\ gen_pc' = "loop")
              => current_scan' = <<>>]_vars

\* a rotation closed by a rotation-start point of distance 0
C10_Witness ==
    /\ gen_kind = "scans" /\ gen_pc = "yield"
    /\ StartWithoutReturn(point)
    /\ emitted # <<>>

(***************************************************************************)
(* The codec functions on their own: the request encoder, the descriptor   *)
(* reader and the measurement decoder are functions of their input only.   *)
(* CodecSpec draws one input and applies the function it is meant for, on  *)
(* a driver whose port is open.                                            *)
(***************************************************************************)
Commands == {CMD_STOP, CMD_SCAN, CMD_GET_INFO, CMD_GET_HEALTH, CMD_SET_PWM,
             0, SYNC_BYTE_1, 255}

\* the longest payload whose length fits the length byte
LongPayload == [i \in 1..255 |-> i]

Payloads ==
    {<<>>, LongPayload}
        \cup {<<a>> : a \in {0, 1, SYNC_BYTE_1, 255}}
        \cup {<<a, b>> : a \in {0, 148, 255}, b \in {0, 2, 255}}
        \cup {<<a, 0, b>> : a \in {0, 37}, b \in {0, 165}}

EncoderInputs ==
    {[fn |-> "send_command", command |-> c, bytes |-> p] : c \in Commands, p \in Payloads}

\* what a read of 7 bytes can return: 7 bytes, or fewer on a timeout
DescriptorFull ==
    {<<b1, b2, b3, 0, 0, b6, b7>> :
        b1 \in {SYNC_BYTE_1, SYNC_BYTE_2, 0}, b2 \in {SYNC_BYTE_2, SYNC_BYTE_1, 0},
        b3 \in {0, 5, 255}, b6 \in {0, 64, 255},
        b7 \in {RESPONSE_INFO, RESPONSE_HEALTH, RESPONSE_SCAN}}

DescriptorInputs ==
    {[fn |-> "read_descriptor", command |-> 0, bytes |-> SubSeq(d, 1, n)] :
        d \in DescriptorFull, n \in 0..DESCRIPTOR_SIZE}

\* 5-byte measurement frames, every field at its ends and in between
FrameInputs ==
    {[fn |-> "parse_scan_response", command |-> 0, bytes |-> <<b0, b1, b2, b3, b4>>] :
        b0 \in {0, 1, 2, 3, 41, 254, 255}, b1 \in {0, 1, 2, 255},
        b2 \in {0, 1, 45, 179, 180, 255}, b3 \in {0, 4, 192, 255}, b4 \in {0, 18, 255}}

\* the 3 payload bytes of a health response: every status, a few error codes
HealthInputs ==
    {[fn |-> "get_health_status", command |-> 0, bytes |-> <<st, lo, hi>>] :
        st \in 0..255, lo \in {0, 1, 255}, hi \in {0, 2, 255}}

CodecInputs == EncoderInputs \cup DescriptorInputs \cup FrameInputs \cup HealthInputs

\* a driver whose port is open, as after connect()
Port == [Self EXCEPT !.serial = "open"]

CodecInit ==
    /\ Constructed
    /\ arg \in CodecInputs
    /\ res = NoResult
    /\ NoHarness
    /\ NoLink

Apply(name, result) ==
    /\ op = "init"
    /\ arg.fn = name
    /\ op' = name
    /\ res' = result
    /\ UNCHANGED <<drv, gen, harness, link, pre, ev, raised, arg>>

\* _send_command(command, payload): the frame handed to serial.write
SendCommand ==
    LET r == send_command(Port, 0, arg.command, arg.bytes)
    IN  Apply("send_command",
              [NoResult EXCEPT !.raised = r.raised, !.frame = r.ev[1].data])

\* _read_descriptor() on what the read returned
ReadDescriptor ==
    LET r == read_descriptor(Port, 0, arg.bytes)
    IN  Apply("read_descriptor",
              IF r.raised THEN [NoResult EXCEPT !.raised = TRUE]
              ELSE [NoResult EXCEPT !.descriptor = r.ret])

\* _parse_scan_response(data)
ParseScanResponse ==
    Apply("parse_scan_response",
          [NoResult EXCEPT !.point = parse_scan_response(arg.bytes)])

\* get_health_status() on a health descriptor and the payload read after it
DecodeHealth ==
    LET r == get_health_status(Port, 0, HealthDescriptor, arg.bytes)
    IN  Apply("get_health_status",
              IF r.raised THEN [NoResult EXCEPT !.raised = TRUE]
              ELSE [NoResult EXCEPT !.health = r.ret])

CodecNext ==
    \/ SendCommand
    \/ ReadDescriptor
    \/ ParseScanResponse
    \/ DecodeHealth

CodecSpec == CodecInit /\ [][CodecNext]_vars

(***************************************************************************)
(* Rotations handed to the caller                                          *)
(***************************************************************************)
\* the caller holds a rotation: iter_scans is suspended at its yield, or
\* get_single_scan has returned the first list yielded
Yielded ==
    \/ gen_kind = "scans" /\ gen_pc = "yield"
    \/ gen_kind = "single" /\ gen_pc = "returned"

\* the rotation-start points of a list
Starts(s) == { i \in DOMAIN s : s[i].new_scan }

\* C11: every rotation handed to the caller, the first one included, is a
\* complete rotation: its points were all received from a rotation-start
\* frame on, and it holds the points of one revolution only.
C11_RotationComplete ==
    Yielded => (aligned /\ Cardinality(Starts(emitted)) <= 1)

\* C12: a rotation handed to the caller is never empty, and a
\* rotation-start point read while the buffer is empty hands nothing over.
C12_RotationNeverEmpty ==
    /\ [](Yielded => emitted # <<>>)
    /\ [][(/\ gen_kind \in {"scans", "single"} /\ gen_pc = "loop"
           /\ current_scan = <<>>)
              => (gen_pc' \notin {"yield", "returned"} /\ emitted' = emitted)]_vars

\* a rotation-start point was read while the buffer was empty, and the
\* iteration reads on
C12_Witness ==
    /\ gen_kind = "scans" /\ gen_pc = "loop"
    /\ op = "read" /\ ~raised /\ Len(ev[1].data) = SCAN_RESPONSE_SIZE
    /\ point.new_scan
    /\ emitted = <<>>

\* C13: iter_scans(max_scans = n), n > 0, has yielded at most n rotations,
\* and the next() after the n-th yield ends it, no earlier one does; with
\* max_scans = 0 the iteration ends only by an exception.
C13_MaxScans ==
    /\ []((gen_kind = "scans" /\ gen_pc = "yield" /\ gen_max > 0)
              => count + 1 <= gen_max)
    /\ [][(gen_kind = "scans" /\ gen_pc = "yield" /\ op' = "resume")
              => (gen_pc' = "done" <=> (gen_max > 0 /\ count + 1 = gen_max))]_vars
    /\ [][(/\ gen_kind = "scans" /\ gen_max = 0 /\ gen_pc \in {"loop", "yield"}
           /\ gen_kind' = "scans" /\ gen_pc' = "done")
              => raised']_vars

\* iter_scans has ended after the last of the rotations asked for
C13_Witness ==
    /\ gen_kind = "scans" /\ gen_pc = "done"
    /\ op = "resume" /\ gen_max = MaxN /\ gen_max > 0

\* the STOP request
StopFrame == <<SYNC_BYTE_1, CMD_STOP>>

\* the operations of the iterators and of get_single_scan
IteratorOps == {"iter_measurements", "iter_scans", "get_single_scan",
                "begin", "resume", "read"}

\* C14: no step of iter_measurements, iter_scans or get_single_scan clears
\* the scanning flag or writes a STOP request, whether it yields, ends at
\* the requested count or replaces an abandoned iteration; the flag is
\* cleared only by stop_scan() or disconnect().
C14_IteratorsNeverStop ==
    /\ op \in IteratorOps =>
          /\ pre.scanning => scanning
          /\ \A i \in DOMAIN ev : ~(ev[i].k = "write" /\ ev[i].data = StopFrame)
    /\ (pre.scanning /\ ~scanning) => op \in {"stop_scan", "disconnect"}

\* an iteration that started the scan has ended at its count, still scanning
C14_Witness ==
    /\ gen_kind \in {"scans", "measurements"} /\ gen_pc = "done"
    /\ op = "resume" /\ gen_max > 0
    /\ scanning /\ serial = "open"

\* C15: a read of fewer than 5 bytes yields nothing, raises nothing and
\* leaves the iteration reading, with its count and buffer as they were:
\* reads that are all short never end it.
C15_ShortReadRetried ==
    [][(/\ gen_pc = "loop" /\ op' = "read" /\ Len(ev') = 1
        /\ ev'[1].ok /\ Len(ev'[1].data) < SCAN_RESPONSE_SIZE)
           => (/\ ~raised'
               /\ gen_pc' = "loop"
               /\ UNCHANGED <<count, current_scan, point, emitted>>)]_vars

\* a short read was made and the iteration reads on
C15_Witness ==
    /\ gen_kind = "measurements" /\ gen_pc = "loop"
    /\ op = "read" /\ ~raised
    /\ Len(ev[1].data) < SCAN_RESPONSE_SIZE

(***************************************************************************)
(* Responses and requests                                                  *)
(***************************************************************************)
\* a 7-byte buffer that begins with the two sync bytes
WellFormed(d) ==
    Len(d) = DESCRIPTOR_SIZE /\ d[1] = SYNC_BYTE_1 /\ d[2] = SYNC_BYTE_2

\* C16: the descriptor reader raises, and returns no descriptor, exactly
\* when the buffer read is not 7 bytes beginning with 0xA5 0x5A.
C16_DescriptorRejected ==
    op = "read_descriptor" => (res.raised <=> ~WellFormed(arg.bytes))

\* a buffer of 7 bytes rejected for its second sync byte
C16_Witness ==
    /\ op = "read_descriptor" /\ res.raised
    /\ Len(arg.bytes) = DESCRIPTOR_SIZE
    /\ arg.bytes[1] = SYNC_BYTE_1 /\ arg.bytes[2] # SYNC_BYTE_2

\* the descriptor type and payload size a query expects
ExpectedType == IF op = "get_device_info" THEN RESPONSE_INFO ELSE RESPONSE_HEALTH
ExpectedSize == IF op = "get_device_info" THEN INFO_SIZE ELSE HEALTH_SIZE

\* the descriptor read by the last query, when its read returned
DescriptorRead == Len(ev) >= 2 /\ ev[2].k = "read" /\ ev[2].ok

GoodResponse ==
    /\ Len(ev) = 3 /\ \A i \in DOMAIN ev : ev[i].ok
    /\ WellFormed(ev[2].data) /\ ev[2].data[7] = ExpectedType
    /\ Len(ev[3].data) = ExpectedSize

\* C17: get_device_info and get_health_status return only from a
\* well-formed descriptor of the expected type followed by a payload of
\* the expected size; a bad descriptor ends the call with an exception
\* before any payload is read, the request is written once, and the
\* driver fields are as before the call.
C17_QueryRejectsBadResponse ==
    op \in {"get_device_info", "get_health_status"} =>
        /\ ~raised => GoodResponse
        /\ (DescriptorRead /\ ~(WellFormed(ev[2].data) /\ ev[2].data[7] = ExpectedType))
              => (raised /\ Len(ev) = 2)
        /\ Cardinality(Writes(ev)) <= 1
        /\ Fields = pre

\* a health query that read a well-formed descriptor of the wrong type
C17_Witness ==
    /\ op = "get_health_status" /\ raised
    /\ Len(ev) = 2 /\ ev[2].ok /\ ev[2].data = InfoDescriptor
    /\ serial = "open"

Bit(x, k) == (x \div (2 ^ k)) % 2

\* the last byte of a frame is the XOR of the bytes before it
ChecksumLast(frame) ==
    \A k \in 0..7 :
        Bit(frame[Len(frame)], k) =
            Cardinality({ i \in 1..(Len(frame) - 1) : Bit(frame[i], k) = 1 }) % 2

\* C18, as stated: for every command byte and every payload of at most
\* 255 bytes the encoded frame ends with the XOR of its preceding bytes.
C18_ChecksumAnyPayload ==
    op = "send_command" => ChecksumLast(res.frame)

\* C18, amended: for every command byte and every payload of 1 to 255
\* bytes the encoded frame ends with the XOR of its preceding bytes.
C18_ChecksumNonEmptyPayload ==
    (op = "send_command" /\ arg.bytes # <<>>) => ChecksumLast(res.frame)

\* a request with the longest payload, encoded
C18_Witness ==
    /\ op = "send_command" /\ Len(arg.bytes) = 255
    /\ Len(res.frame) > Len(arg.bytes)

\* C19: without payload the frame is [0xA5, command]; with a payload p it
\* is [0xA5, command, len(p)], p and one more byte, len(p) + 4 bytes.
C19_FrameLayout ==
    op = "send_command" =>
        IF arg.bytes = <<>>
        THEN res.frame = <<SYNC_BYTE_1, arg.command>>
        ELSE /\ Len(res.frame) = Len(arg.bytes) + 4
             /\ SubSeq(res.frame, 1, 3) = <<SYNC_BYTE_1, arg.command, Len(arg.bytes)>>
             /\ SubSeq(res.frame, 4, Len(arg.bytes) + 3) = arg.bytes

\* a motor-speed request, payload of 2 bytes, encoded as 6
C19_Witness ==
    /\ op = "send_command" /\ arg.command = CMD_SET_PWM
    /\ arg.bytes = <<148, 2>>
    /\ Len(res.frame) = 6

\* C20: every decoded point has quality 0..63 and an angle below 360
\* degrees, 360 * 64 in the units of 1/64 degree.
C20_PointInRange ==
    op = "parse_scan_response" =>
        /\ res.point.quality \in 0..63
        /\ res.point.angle >= 0 /\ res.point.angle < 360 * 64

(***************************************************************************)
(* Decoding                                                                *)
(***************************************************************************)
\* the value of bits lo..hi of byte x, bit lo becoming bit 0
Bits(x, lo, hi) == (x \div (2 ^ lo)) % (2 ^ (hi - lo + 1))

\* the frame of the decode example: 0x29 0x01 0x2D 0xC0 0x12
ExampleFrame == <<41, 1, 45, 192, 18>>

\* C21: a 5-byte frame b decodes, without failing, to quality = bits 2..7
\* of b[0], rotation start = bit 0 of b[0], angle = bits 1..7 of b[1]
\* below the 8 bits of b[2], in 1/64 degree, and distance = b[3] below
\* b[4], in 1/4 mm; the example frame gives quality 10, a rotation start,
\* 90 degrees and 1200 mm; the distance is 0 exactly when b[3] = b[4] = 0.
C21_FrameDecoded ==
    op = "parse_scan_response" =>
        LET b == arg.bytes
            p == res.point
        IN  /\ ~res.raised
            /\ p.quality = Bits(b[1], 2, 7)
            /\ p.new_scan = (Bits(b[1], 0, 0) = 1)
            /\ Bits(p.angle, 0, 6) = Bits(b[2], 1, 7)
            /\ Bits(p.angle, 7, 14) = b[3]
            /\ p.angle < 2 ^ 15
            /\ Bits(p.distance, 0, 7) = b[4]
            /\ Bits(p.distance, 8, 15) = b[5]
            /\ p.distance < 2 ^ 16
            /\ (p.distance = 0) = (b[4] = 0 /\ b[5] = 0)
            /\ b = ExampleFrame =>
                  p = ScanPoint(90 * 64, 1200 * 4, 10, TRUE)

\* the example frame, decoded
C21_Witness ==
    /\ op = "parse_scan_response"
    /\ arg.bytes = ExampleFrame
    /\ res.point.angle = 90 * 64

\* C22: on a health descriptor followed by 3 payload bytes the call
\* returns status = byte 0, error_code = byte 1 + 256 * byte 2 and the
\* label Good, Warning, Error for status 0, 1, 2, Unknown for every other
\* status, which does not fail the call.
C22_HealthDecoded ==
    op = "get_health_status" =>
        LET b == arg.bytes
            h == res.health
        IN  /\ ~res.raised
            /\ h.status = b[1]
            /\ h.error_code = b[2] + (256 * b[3])
            /\ h.status_name = (IF b[1] = 0 THEN "Good"
                                ELSE IF b[1] = 1 THEN "Warning"
                                ELSE IF b[1] = 2 THEN "Error"
                                ELSE "Unknown")

\* a health response of status 255 and the largest error code, decoded
C22_Witness ==
    /\ op = "get_health_status" /\ ~res.raised
    /\ arg.bytes = <<255, 255, 255>>
    /\ res.health.status_name = "Unknown"

\* a byte with bit k set to v
WithBit(x, k, v) == x - (Bits(x, k, k) * (2 ^ k)) + (v * (2 ^ k))

\* the frames that differ from b in its two check bits at most
CheckBitVariants(b) ==
    { <<WithBit(b[1], 1, u), WithBit(b[2], 0, v), b[3], b[4], b[5]>> :
        u \in {0, 1}, v \in {0, 1} }

\* C25: the frames that differ from a decoded frame only in bit 1 of byte
\* 0 and bit 0 of byte 1 decode to the same point, and decoding fails for
\* none of them.
C25_CheckBitsIgnored ==
    op = "parse_scan_response" =>
        /\ ~res.raised
        /\ \A v \in CheckBitVariants(arg.bytes) : parse_scan_response(v) = res.point

\* a frame decoded whose check bits are both set, the rotation-start bit too
C25_Witness ==
    /\ op = "parse_scan_response"
    /\ Bits(arg.bytes[1], 0, 1) = 3 /\ Bits(arg.bytes[2], 0, 0) = 1
    /\ res.point.new_scan

(***************************************************************************)
(* Motor line and requests written                                         *)
(***************************************************************************)
\* C23: start_motor(pwm) leaves the motor line high and stop_motor() low
\* when the transport takes the change; neither writes to the transport
\* nor changes _serial or the scanning flag; without a transport both
\* return with nothing done; and the outcome of start_motor is the same
\* for every pwm.
C23_MotorLine ==
    /\ op \in {"start_motor", "stop_motor"} =>
          /\ Writes(ev) = {}
          /\ serial = pre.serial /\ scanning = pre.scanning
          /\ pre.serial = "None" => (~raised /\ ev = <<>> /\ Fields = pre)
          /\ (pre.serial # "None" /\ ~raised) =>
                 dtr = (IF op = "start_motor" THEN "high" ELSE "low")
    /\ \A F \in FaultsIn(1) : \A pwm \in {0, 1, DEFAULT_PWM, 1023} :
          start_motor(Self, F, pwm) = start_motor(Self, F, DEFAULT_PWM)

\* a start_motor() that raised the line of a scanning driver
C23_Witness ==
    /\ op = "start_motor" /\ ~raised
    /\ pre = [serial |-> "open", scanning |-> TRUE, dtr |-> "low"]
    /\ dtr = "high" /\ scanning

\* the requests the driver writes
RequestFrames ==
    { <<SYNC_BYTE_1, c>> : c \in {CMD_STOP, CMD_SCAN, CMD_GET_INFO, CMD_GET_HEALTH} }

\* C24: every frame written to the transport is the 2-byte request STOP,
\* SCAN, GET_INFO or GET_HEALTH, and STOP is written only inside
\* stop_scan() or disconnect().
C24_RequestsWritten ==
    \A i \in Writes(ev) :
        /\ ev[i].data \in RequestFrames
        /\ ev[i].data = StopFrame => op \in {"stop_scan", "disconnect"}

\* a set_motor_pwm() on an open port, which wrote nothing
C24_Witness ==
    /\ op = "set_motor_pwm" /\ pre.serial = "open" /\ ~raised
    /\ Len(ev) = 1 /\ ev[1].k = "dtr"

(***************************************************************************)
(* The test program: main(), run_all_tests() and BaseTest.run() with the   *)
(* execute() of the scanning tests (ScanRateTest, SignalQualityTest and    *)
(* AngularResolutionTest have the same shape: start_scan(), a loop over    *)
(* iter_scans() in a try, stop_scan() in its finally).  Each step is one   *)
(* call on the driver, with the transport free to fail in it.              *)
(***************************************************************************)

\* AVAILABLE_TESTS: scan_rate, signal_quality
NTests == 2

TestStatus == {"not_run", "running", "passed", "failed", "error"}

\* TestReport() as BaseTest.__init__ makes it: no result yet
TestReport == [status |-> "not_run", results_ok |-> TRUE]

\* TestReport.passed
report_passed(rep) ==
    IF rep.status = "error" THEN FALSE ELSE rep.results_ok

\* main(): all(r.passed for r in reports.values())
all_passed(reps) == \A i \in DOMAIN reps : report_passed(reps[i])

\* a call on the driver made by the test program
HarnessCall(name, r) ==
    /\ Return(name, r)
    /\ UNCHANGED gen

HarnessInit ==
    /\ Constructed
    /\ arg = NoArg
    /\ res = NoResult
    /\ NoLink
    /\ main_pc = "args"
    /\ selected = "none"
    /\ owns = FALSE
    /\ test_index = 0
    /\ run_pc = "none"
    /\ run_raised = FALSE
    /\ report = TestReport
    /\ started = FALSE
    /\ stop_called = FALSE
    /\ reports = <<>>
    /\ outcomes = <<>>
    /\ exit_code = -1

\* run_single_test(): the test object is made and run() begins
BeginRun(t, own) ==
    /\ main_pc' = "running"
    /\ test_index' = t
    /\ owns' = own
    /\ run_pc' = "connect"
    /\ run_raised' = FALSE
    /\ report' = [TestReport EXCEPT !.status = "running"]
    /\ started' = FALSE
    /\ stop_called' = FALSE

\* main(): --list-tests, a configuration that does not load, one test by
\* name on a driver of its own, or all of them
MainArgs ==
    /\ main_pc = "args"
    /\ \/ /\ selected' = "list"
          /\ main_pc' = "exit"
          /\ exit_code' = 0
          /\ UNCHANGED <<owns, test_index, run_pc, run_raised, report, started, stop_called>>
       \/ /\ selected' = "none"
          /\ main_pc' = "exit"
          /\ exit_code' = 1
          /\ UNCHANGED <<owns, test_index, run_pc, run_raised, report, started, stop_called>>
       \/ /\ selected' = "one"
          /\ \E t \in 1..NTests : BeginRun(t, TRUE)
          /\ UNCHANGED exit_code
       \/ /\ selected' = "all"
          /\ main_pc' = "connect"
          /\ UNCHANGED <<owns, test_index, run_pc, run_raised, report, started, stop_called, exit_code>>
    /\ UNCHANGED <<drv, gen, codec, link, op, pre, ev, raised, reports, outcomes>>

\* run_all_tests(): driver.connect() on the shared driver
AllConnect ==
    /\ main_pc = "connect"
    /\ \E F \in FaultsIn(3) : \E line \in {"high", "low"} :
        LET r == connect(Self, F, line)
        IN  /\ HarnessCall("connect", r)
            /\ IF r.raised
               THEN /\ main_pc' = "disconnect"
                    /\ run_raised' = TRUE
                    /\ UNCHANGED <<owns, test_index, run_pc, report, started, stop_called>>
               ELSE BeginRun(1, FALSE)
    /\ UNCHANGED <<selected, reports, outcomes, exit_code>>

\* an exception leaves the try block of run(): the except clause marks the
\* report, the finally clause follows
RunFails ==
    /\ report' = [report EXCEPT !.status = "error"]
    /\ run_raised' = TRUE
    /\ run_pc' = "teardown"

\* run(): "if not self.driver.is_connected: self.driver.connect()"
RunConnect ==
    /\ main_pc = "running" /\ run_pc = "connect"
    /\ \E F \in FaultsIn(3) : \E line \in {"high", "low"} :
        LET r == IF ~is_connected(Self) THEN connect(Self, F, line) ELSE Self
        IN  /\ HarnessCall("connect", r)
            /\ IF r.raised THEN RunFails
               ELSE run_pc' = "setup" /\ UNCHANGED <<report, run_raised>>
    /\ UNCHANGED <<main_pc, selected, owns, test_index, started, stop_called,
                   reports, outcomes, exit_code>>

\* setup(): start_motor()
RunSetup ==
    /\ main_pc = "running" /\ run_pc = "setup"
    /\ \E F \in FaultsIn(1) :
        LET r == start_motor(Self, F, DEFAULT_PWM)
        IN  /\ HarnessCall("start_motor", r)
            /\ IF r.raised THEN RunFails
               ELSE run_pc' = "start_scan" /\ UNCHANGED <<report, run_raised>>
    /\ UNCHANGED <<main_pc, selected, owns, test_index, started, stop_called,
                   reports, outcomes, exit_code>>

\* execute(): self.driver.start_scan(), before the try
RunStartScan ==
    /\ main_pc = "running" /\ run_pc = "start_scan"
    /\ \E F \in StartFaults : \E bytes \in StartReads :
        LET r == start_scan(Self, F, bytes)
        IN  /\ HarnessCall("start_scan", r)
            /\ IF r.raised THEN RunFails /\ UNCHANGED started
               ELSE /\ run_pc' = "iterate"
                    /\ started' = TRUE
                    /\ UNCHANGED <<report, run_raised>>
    /\ UNCHANGED <<main_pc, selected, owns, test_index, stop_called,
                   reports, outcomes, exit_code>>

\* execute(): one read of the loop over iter_scans().  The loop goes on, or
\* is left when a frame that closes a rotation brings the last list wanted,
\* or is left by an exception; either way the finally clause is next
RunIterate ==
    /\ main_pc = "running" /\ run_pc = "iterate"
    /\ \E F \in FaultsIn(1) : \E data \in FrameReads : \E enough \in BOOLEAN :
        LET r == serial_read(Self, F, data)
        IN  /\ HarnessCall("read", r)
            /\ IF r.raised
               THEN /\ run_raised' = TRUE
                    /\ run_pc' = "stop_scan"
                    /\ UNCHANGED report
               ELSE /\ enough => (Len(data) = SCAN_RESPONSE_SIZE
                                  /\ parse_scan_response(data).new_scan)
                    /\ run_pc' = IF enough THEN "stop_scan" ELSE "iterate"
                    /\ UNCHANGED <<report, run_raised>>
    /\ UNCHANGED <<main_pc, selected, owns, test_index, started, stop_called,
                   reports, outcomes, exit_code>>

\* execute(): "finally: self.driver.stop_scan()"; an exception of the loop
\* or of stop_scan() itself then leaves execute()
RunStopScan ==
    /\ main_pc = "running" /\ run_pc = "stop_scan"
    /\ \E F \in FaultsIn(3) :
        LET r == stop_scan(Self, F)
        IN  /\ HarnessCall("stop_scan", r)
            /\ stop_called' = TRUE
            /\ IF r.raised \/ run_raised THEN RunFails
               ELSE run_pc' = "analyze" /\ UNCHANGED <<report, run_raised>>
    /\ UNCHANGED <<main_pc, selected, owns, test_index, started,
                   reports, outcomes, exit_code>>

\* execute() records its results, analyze() evaluates them against the
\* limits; the status is PASSED if report.passed, else FAILED
RunAnalyze ==
    /\ main_pc = "running" /\ run_pc = "analyze"
    /\ \E ok \in BOOLEAN :
        LET rep == [report EXCEPT !.results_ok = ok]
        IN  report' = [rep EXCEPT !.status = IF report_passed(rep) THEN "passed" ELSE "failed"]
    /\ run_pc' = "teardown"
    /\ UNCHANGED <<drv, gen, codec, link, op, pre, ev, raised, main_pc, selected, owns,
                   test_index, run_raised, started, stop_called, reports, outcomes, exit_code>>

\* run(), finally: teardown() is stop_motor(), its exception is logged
RunTeardown ==
    /\ main_pc = "running" /\ run_pc = "teardown"
    /\ \E F \in FaultsIn(1) : HarnessCall("stop_motor", stop_motor(Self, F))
    /\ run_pc' = IF owns THEN "disconnect" ELSE "end"
    /\ UNCHANGED <<main_pc, selected, owns, test_index, run_raised, report, started,
                   stop_called, reports, outcomes, exit_code>>

\* run(), finally: "if self._owns_driver ...: self._driver.disconnect()"
RunDisconnect ==
    /\ main_pc = "running" /\ run_pc = "disconnect"
    /\ \E F \in Faults : HarnessCall("disconnect", disconnect(Self, F))
    /\ run_pc' = "end"
    /\ UNCHANGED <<main_pc, selected, owns, test_index, run_raised, report, started,
                   stop_called, reports, outcomes, exit_code>>

\* run() returns its report or raises.  main() keeps the report of the one
\* test; run_all_tests() keeps the report of a test that returned, prints
\* the error of one that raised, and goes on to the next test
RunEnd ==
    /\ main_pc = "running" /\ run_pc = "end"
    /\ outcomes' = Append(outcomes, report.status)
    /\ reports' = IF run_raised THEN reports ELSE Append(reports, report)
    /\ IF selected = "one"
       THEN /\ main_pc' = "summary"
            /\ run_pc' = "none"
            /\ UNCHANGED <<owns, test_index, run_raised, report, started, stop_called>>
       ELSE IF test_index < NTests
       THEN BeginRun(test_index + 1, FALSE)
       ELSE /\ main_pc' = "disconnect"
            /\ run_pc' = "none"
            /\ run_raised' = FALSE
            /\ UNCHANGED <<owns, test_index, report, started, stop_called>>
    /\ UNCHANGED <<drv, gen, codec, link, op, pre, ev, raised, selected, exit_code>>

\* run_all_tests(): "finally: driver.disconnect()"
AllDisconnect ==
    /\ main_pc = "disconnect"
    /\ \E F \in Faults : HarnessCall("disconnect", disconnect(Self, F))
    /\ main_pc' = "summary"
    /\ UNCHANGED <<selected, owns, test_index, run_pc, run_raised, report, started,
                   stop_called, reports, outcomes, exit_code>>

\* main(): an exception that reached it gives 1, as does one raised while
\* the results are printed and saved; else 0 if all(r.passed ...), else 1
MainExit ==
    /\ main_pc = "summary"
    /\ \E saved \in BOOLEAN :
        exit_code' = IF run_raised \/ ~saved THEN 1
                     ELSE IF all_passed(reports) THEN 0 ELSE 1
    /\ main_pc' = "exit"
    /\ UNCHANGED <<drv, gen, codec, link, op, pre, ev, raised, selected, owns, test_index,
                   run_pc, run_raised, report, started, stop_called, reports, outcomes>>

HarnessNext ==
    \/ MainArgs
    \/ AllConnect
    \/ RunConnect
    \/ RunSetup
    \/ RunStartScan
    \/ RunIterate
    \/ RunStopScan
    \/ RunAnalyze
    \/ RunTeardown
    \/ RunDisconnect
    \/ RunEnd
    \/ AllDisconnect
    \/ MainExit

HarnessSpec == HarnessInit /\ [][HarnessNext]_vars

\* C26: when run() of a scanning test ends, on any path, after its
\* start_scan() succeeded, stop_scan() has been invoked on the driver, owned
\* or shared, and the driver is not left scanning
C26_ScanReleased ==
    (main_pc = "running" /\ run_pc = "end" /\ started)
        => (stop_called /\ ~scanning)

\* the number of tests the command line selected
NSelected == IF selected = "one" THEN 1 ELSE IF selected = "all" THEN NTests ELSE 0

\* C27: main() returns 0 only if every selected test ran to completion and
\* passed; a selected test that failed a limit or whose run() raised gives a
\* non-zero exit code, for one test and for all tests on the shared driver
C27_ExitCode ==
    (main_pc = "exit" /\ exit_code = 0)
        => (/\ Len(outcomes) = NSelected
            /\ \A i \in DOMAIN outcomes : outcomes[i] = "passed")

(***************************************************************************)
(* The bytes on the line.  The device answers GET_INFO and GET_HEALTH with *)
(* a descriptor and a payload, SCAN with a descriptor and then a stream of *)
(* frames, STOP with nothing.  What it sends arrives in the input buffer   *)
(* of the transport sooner or later; serial.read(n) returns the first n    *)
(* bytes of the buffer, or fewer when the timeout ends before n are there. *)
(* Each byte carries the number of the request the device sent it for.     *)
(***************************************************************************)

MaxRequests == 2
MaxLine == 5

\* how many of the bytes on their way arrive before a read ends: none, all,
\* or the first n that the read asks for
Arrivals(q, n) == {k \in {0, n, Len(q)} : k <= Len(q)}

Tagged(bytes, n) == [i \in 1..Len(bytes) |-> [v |-> bytes[i], of |-> n]]
Values(tb) == [i \in 1..Len(tb) |-> tb[i].v]

Take(q, n) == IF n >= Len(q) THEN q ELSE SubSeq(q, 1, n)
Drop(q, n) == IF n >= Len(q) THEN <<>> ELSE SubSeq(q, n + 1, Len(q))

\* what the device sends for the n-th request
Response(command, n) ==
    IF command = CMD_GET_INFO THEN Tagged(InfoDescriptor \o InfoPayload, n)
    ELSE IF command = CMD_GET_HEALTH THEN Tagged(HealthDescriptor \o <<0, 0, 0>>, n)
    ELSE IF command = CMD_SCAN THEN Tagged(ScanDescriptor, n)
    ELSE <<>>

\* a call on the driver with the line followed
LinkCall(name, r) ==
    /\ serial' = r.serial
    /\ scanning' = r.scanning
    /\ dtr' = r.dtr
    /\ op' = name
    /\ pre' = Fields
    /\ ev' = r.ev
    /\ raised' = r.raised
    /\ UNCHANGED <<gen, codec, harness>>

LinkInit ==
    /\ Constructed
    /\ arg = NoArg
    /\ res = NoResult
    /\ NoHarness
    /\ NoLink

\* connect(): the port is opened and both buffers are cleared
LinkConnect ==
    /\ \E line \in {"high", "low"} : LinkCall("connect", connect(Self, 0, line))
    /\ rx' = IF is_connected(Self) THEN rx ELSE <<>>
    /\ UNCHANGED <<wire, req_no, streaming, parsed>>

\* the query of that name, given what its two reads return
query(name, bytes, data) ==
    IF name = "get_device_info"
    THEN get_device_info(Self, 0, bytes, data)
    ELSE get_health_status(Self, 0, bytes, data)

\* get_device_info() / get_health_status(): the request is written, the
\* device answers it, k1 of the bytes on their way arrive before the read
\* of the descriptor ends, k2 more before the read of the payload ends
LinkQuery(name, command, size) ==
    /\ req_no < MaxRequests
    /\ LET n == req_no + 1
           w1 == wire \o Response(command, n)
       IN  \E k1 \in Arrivals(w1, DESCRIPTOR_SIZE) :
           LET rx1 == rx \o Take(w1, k1)
               w2 == Drop(w1, k1)
               d == Take(rx1, DESCRIPTOR_SIZE)
               rx2 == Drop(rx1, DESCRIPTOR_SIZE)
               reads2 == Len(query(name, Values(d), <<>>).ev) = 3
           IN  \E k2 \in Arrivals(w2, size) :
               LET rx3 == rx2 \o Take(w2, k2)
                   w3 == Drop(w2, k2)
                   p == Take(rx3, size)
               IN  /\ reads2 \/ k2 = 0
                   /\ LinkCall(name, query(name, Values(d), Values(p)))
                   /\ req_no' = n
                   /\ parsed' = IF reads2 THEN d \o p ELSE d
                   /\ rx' = IF reads2 THEN Drop(rx3, size) ELSE rx2
                   /\ wire' = IF reads2 THEN w3 ELSE w2
                   /\ UNCHANGED streaming

LinkGetDeviceInfo ==
    /\ is_connected(Self)
    /\ LinkQuery("get_device_info", CMD_GET_INFO, INFO_SIZE)

LinkGetHealthStatus ==
    /\ is_connected(Self)
    /\ LinkQuery("get_health_status", CMD_GET_HEALTH, HEALTH_SIZE)

\* start_scan(): the SCAN request and the read of its descriptor; the
\* device streams from then on
LinkStartScan ==
    /\ is_connected(Self)
    /\ ~scanning
    /\ req_no < MaxRequests
    /\ LET n == req_no + 1
           w1 == wire \o Response(CMD_SCAN, n)
       IN  \E k1 \in Arrivals(w1, DESCRIPTOR_SIZE) :
           LET rx1 == rx \o Take(w1, k1)
               d == Take(rx1, DESCRIPTOR_SIZE)
           IN  /\ LinkCall("start_scan", start_scan(Self, 0, Values(d)))
               /\ req_no' = n
               /\ streaming' = n
               /\ parsed' = d
               /\ rx' = Drop(rx1, DESCRIPTOR_SIZE)
               /\ wire' = Drop(w1, k1)

\* the device, streaming: one more frame
DeviceStreams ==
    /\ streaming > 0
    /\ Len(rx) + Len(wire) + SCAN_RESPONSE_SIZE <= MaxLine
    /\ wire' = wire \o Tagged(ExampleFrame, streaming)
    /\ UNCHANGED <<drv, gen, codec, harness, op, pre, ev, raised, rx, req_no, streaming, parsed>>

\* stop_scan(): STOP ends the stream; after the wait the input buffer is
\* cleared of what has arrived
LinkStopScan ==
    /\ is_connected(Self)
    /\ req_no < MaxRequests
    /\ LinkCall("stop_scan", stop_scan(Self, 0))
    /\ req_no' = req_no + 1
    /\ streaming' = 0
    /\ \E k \in Arrivals(wire, Len(wire)) :
        /\ rx' = <<>>
        /\ wire' = Drop(wire, k)
    /\ UNCHANGED parsed

LinkNext ==
    \/ LinkConnect
    \/ LinkGetDeviceInfo
    \/ LinkGetHealthStatus
    \/ LinkStartScan
    \/ DeviceStreams
    \/ LinkStopScan

LinkSpec == LinkInit /\ [][LinkNext]_vars

\* C28: a get_device_info / get_health_status call that returns a result
\* decoded it from the response to the request this call sent: no byte of
\* an earlier response, left unread by an aborted request or by a scan left
\* streaming, is taken as its descriptor or payload
C28_OwnResponse ==
    (op \in {"get_device_info", "get_health_status"} /\ ~raised)
        => \A i \in DOMAIN parsed : parsed[i].of = req_no

\* the points of two lists are the same, each as many times
SameBag(s, t) ==
    \A x \in {s[i] : i \in DOMAIN s} \cup {t[i] : i \in DOMAIN t} :
        Count(s, x) = Count(t, x)

\* a read of iter_scans that decoded a frame
DecodedStep ==
    /\ gen_kind \in {"scans", "single"} /\ gen_pc = "loop"
    /\ op' = "read" /\ ~raised' /\ Len(ev'[1].data) = SCAN_RESPONSE_SIZE

\* C29: within one iter_scans iteration no valid point is lost or
\* duplicated.  A decoded point that closes no rotation is added to the
\* accumulation once if its distance is positive, and nothing else changes
\* there; the list yielded at a boundary holds the accumulated points, each
\* once; the accumulation that follows starts from the closing point alone,
\* so no point is carried into a second rotation; and a list that was
\* yielded changes no more until the next one is yielded.
C29_NoPointLostOrDuplicated ==
    /\ [][(DecodedStep /\ gen_pc' = "loop")
             => current_scan' = current_scan \o
                    (IF point'.distance > 0 THEN <<point'>> ELSE <<>>)]_vars
    /\ [][(DecodedStep /\ gen_pc' \in {"yield", "returned"})
             => SameBag(emitted', current_scan)]_vars
    /\ [][(gen_kind = "scans" /\ gen_pc = "yield" /\ op' = "resume" /\ gen_pc' = "loop")
             => (/\ current_scan' = (IF point.distance > 0 THEN <<point>> ELSE <<>>)
                 /\ emitted' = emitted)]_vars
    /\ [][(emitted' # emitted)
             => \/ DecodedStep /\ gen_pc' \in {"yield", "returned"}
                \/ op' \in {"iter_measurements", "iter_scans", "get_single_scan"}]_vars

\* a second rotation is being accumulated from a valid closing point, the
\* first one, of valid points, in the caller's hands
C29_Witness ==
    /\ gen_kind = "scans" /\ gen_pc = "loop" /\ op = "resume"
    /\ emitted # <<>>
    /\ current_scan = <<point>>
    /\ point.new_scan /\ point.distance > 0

\* C30: an iterator reads from the transport only while the driver is
\* scanning: resumed after stop_scan() or disconnect(), it ends or raises
\* and makes no read of the stopped stream
C30_ReadsOnlyWhileScanning ==
    (op = "read" /\ ev # <<>>) => pre.scanning
====
